---- MODULE Spec2Model ----
(***************************************************************************)
(* EOM-Scraper: the incremental-sync state machine.                        *)
(*                                                                         *)
(* One pass = one process: EOMScraper.__init__ loads the state file,       *)
(* EOMScraper.run tests the SMTP connection, fetches the posts published   *)
(* after last_check, filters them, sends each one by e-mail, commits the   *)
(* ids that were sent, advances last_check and saves the state file.       *)
(*                                                                         *)
(* Time is an integer clock `now` (datetime.now(timezone.utc)); ISO-8601   *)
(* timestamps are the integers they denote.  last_successful_run = ''      *)
(* (never) is NeverRun.                                                    *)
(***************************************************************************)
EXTENDS Integers, Sequences, FiniteSets

\* ------------------------------------------------------------------ bounds
MaxId == 5          \* remote post ids are 1..MaxId
MaxTime == 2        \* the clock runs 0..MaxTime
MaxFetch == 2       \* posts in one feed response (per_page, scaled down)
MaxPasses == 2      \* processes started over the same state file
KeepRecent == 2     \* cleanup_old_processed_ids' keep_recent (default 1000, scaled down)
MaxFaults == 1      \* save failures and malformed feed payloads over one behaviour
MaxTotal == 6       \* total_posts_processed in a sequence of store calls

NeverRun == -1      \* last_successful_run = '' in a fresh state
NullId == 0         \* a post whose 'id' is missing, None or 0 (falsy)

Ids == 1..MaxId

VARIABLES
    now,              \* the UTC clock
    pubdate,          \* pubdate[id]: when the site publishes post id
    file,             \* the state file on disk
    state,            \* StateManager.state (ScraperState) of the running process
    app_config,       \* AppConfig of the running process
    pc,               \* where the running process is in run()
    new_articles,     \* run()'s new_articles: metadata (ids) that survived filtering
    i,                \* _process_articles' loop index (1-based)
    processed_count,  \* _process_articles' processed_count
    smtp_sent,        \* smtp_sent[id]: e-mails actually handed to SMTP for post id (capped at 2)
    passes,           \* processes started so far
    feed,             \* the site's answering: any list, or the same list every time
    faults,           \* save failures and malformed payloads so far
    run,              \* what the current pass did (observations; the code never reads them)
    prev              \* the previous pass's watermarks (observations)

vars == <<now, pubdate, file, state, app_config, pc, new_articles, i,
          processed_count, smtp_sent, passes, feed, faults, run, prev>>

\* ------------------------------------------------------------- ScraperState

\* StateManager.state before load_state: no process is running.
NoneState ==
    [last_check_timestamp |-> 0, processed_post_ids |-> {},
     total_posts_processed |-> 0, last_successful_run |-> NeverRun,
     errors_count |-> 0]

Max(S) == CHOOSE m \in S : \A x \in S : x <= m

\* sorted(ids, reverse=True)
RECURSIVE sorted_reverse(_)
sorted_reverse(S) ==
    IF S = {} THEN <<>>
    ELSE LET m == Max(S) IN <<m>> \o sorted_reverse(S \ {m})

\* list(set): the ids as a JSON array (ascending, as CPython lists small ints)
RECURSIVE list_of(_)
list_of(S) ==
    IF S = {} THEN <<>>
    ELSE LET m == Max(S) IN Append(list_of(S \ {m}), m)

\* set(list)
set_of(q) == {q[k] : k \in 1..Len(q)}

\* seq[:n]
Take(q, n) == SubSeq(q, 1, IF n < Len(q) THEN n ELSE Len(q))

to_dict(s) ==
    [last_check_timestamp |-> s.last_check_timestamp,
     processed_post_ids |-> list_of(s.processed_post_ids),
     total_posts_processed |-> s.total_posts_processed,
     last_successful_run |-> s.last_successful_run,
     errors_count |-> s.errors_count]

from_dict(d) ==
    [last_check_timestamp |-> d.last_check_timestamp,
     processed_post_ids |-> set_of(d.processed_post_ids),
     total_posts_processed |-> d.total_posts_processed,
     last_successful_run |-> d.last_successful_run,
     errors_count |-> d.errors_count]

create_initial_state(t) ==
    [last_check_timestamp |-> t, processed_post_ids |-> {},
     total_posts_processed |-> 0, last_successful_run |-> NeverRun,
     errors_count |-> 0]

\* ---------------------------------------------------------------- the file

\* shape: what json.load returns: "object" (a dict), "not_object" (a list, a
\* number, a string, null) or "ids_not_iterable" (a dict whose
\* processed_post_ids is a number or null)
AbsentFile ==
    [exists |-> FALSE, json |-> FALSE, shape |-> "object", data |-> to_dict(NoneState)]
\* a file that json.load rejects: empty (truncated by open(..., 'w')) or cut short
CorruptFile ==
    [exists |-> TRUE, json |-> FALSE, shape |-> "object", data |-> to_dict(NoneState)]
JsonFile(s) ==
    [exists |-> TRUE, json |-> TRUE, shape |-> "object", data |-> to_dict(s)]
\* valid JSON that is no state record
WrongShapeFile(shape) ==
    [exists |-> TRUE, json |-> TRUE, shape |-> shape, data |-> to_dict(NoneState)]

\* from_dict on what json.load returned: data.get on a non-dict raises
\* AttributeError, set() of a non-iterable raises TypeError; load_state catches
\* json.JSONDecodeError and KeyError only
load_state_raises(f) == f.exists /\ f.json /\ f.shape # "object"

load_state(f, t) ==
    IF f.exists
    THEN IF f.json THEN from_dict(f.data) ELSE create_initial_state(t)
    ELSE create_initial_state(t)

\* save_state's outcomes: "ok"; "not_opened" (mkdir or open raised: the file is
\* untouched); "cut" (the write raised after open(..., 'w') truncated the file).
SaveOutcomes == {"ok", "not_opened", "cut"}

save_state(f, s, outcome) ==
    CASE outcome = "ok" -> JsonFile(s)
      [] outcome = "not_opened" -> f
      [] OTHER -> CorruptFile

\* ---------------------------------------------------------------- mutators

\* a watermark set back by a safety margin
update_last_check_margin(s, timestamp) ==
    [s EXCEPT !.last_check_timestamp = timestamp - 1]

update_last_check(s, timestamp) ==
    [s EXCEPT !.last_check_timestamp = timestamp]

\* an insert that counts every call
mark_post_processed_recount(s, post_id) ==
    [s EXCEPT !.processed_post_ids = @ \cup {post_id},
              !.total_posts_processed = @ + 1]

mark_post_processed(s, post_id) ==
    IF post_id \notin s.processed_post_ids
    THEN [s EXCEPT !.processed_post_ids = @ \cup {post_id},
                   !.total_posts_processed = @ + 1]
    ELSE s

\* a membership test that finds nothing
is_post_processed_never(s, post_id) == FALSE

is_post_processed(s, post_id) == post_id \in s.processed_post_ids

mark_successful_run(s, t) == [s EXCEPT !.last_successful_run = t]

\* a counter that jumps by two
increment_error_count_twice(s) == [s EXCEPT !.errors_count = @ + 2]

increment_error_count(s) == [s EXCEPT !.errors_count = @ + 1]

\* a trim that waits for twice the ceiling
cleanup_old_processed_ids_late(s, keep_recent) ==
    IF Cardinality(s.processed_post_ids) > 2 * keep_recent
    THEN [s EXCEPT !.processed_post_ids =
              set_of(Take(sorted_reverse(s.processed_post_ids), keep_recent))]
    ELSE s

\* len > keep_recent * 1.5, in integers: 2 * len > 3 * keep_recent
cleanup_old_processed_ids(s, keep_recent) ==
    IF 2 * Cardinality(s.processed_post_ids) > 3 * keep_recent
    THEN [s EXCEPT !.processed_post_ids =
              set_of(Take(sorted_reverse(s.processed_post_ids), keep_recent))]
    ELSE s

\* ------------------------------------------------------------------ the feed

\* the 'date' field of the site's posts: post 1 carries a string that
\* datetime.fromisoformat rejects, the others an ISO-8601 date
post_date(id) == IF id = 1 THEN "unparsable" ELSE "iso"

\* ContentProcessor._format_date: the date as "%d/%m/%Y %H:%M"; on ValueError
\* a warning is logged and the string is returned as it came. It does not raise
\* and it does not drop the article.
format_date(date_str) == IF date_str = "iso" THEN "formatted" ELSE date_str

\* classify_post_access: post MaxId carries the paywall marker, the others do not
classify_post_access(id) == IF id = MaxId THEN "premium" ELSE "open"

\* What the site can return at time t: any list of at most MaxFetch posts that
\* are published by then; a post may lack its id.
RECURSIVE SeqsUpTo(_, _)
SeqsUpTo(S, n) ==
    IF n = 0 THEN {<<>>}
    ELSE LET shorter == SeqsUpTo(S, n - 1)
         IN shorter \cup {Append(q, x) : q \in {r \in shorter : Len(r) = n - 1}, x \in S}

Published(t) == {id \in Ids : pubdate[id] <= t}

\* orderby=date, order=desc: the newest post first (of two posts with the same
\* date, the one with the larger id)
Newest(S) ==
    CHOOSE m \in S : \A x \in S :
        pubdate[x] < pubdate[m] \/ (pubdate[x] = pubdate[m] /\ x <= m)

RECURSIVE newest_first(_)
newest_first(S) ==
    IF S = {} THEN <<>>
    ELSE LET m == Newest(S) IN <<m>> \o newest_first(S \ {m})

\* GET /posts?after=<since>&per_page=<MaxFetch>&orderby=date&order=desc, asked
\* at time t: one page, the newest posts published after `since`
get_posts_since(since, t) ==
    Take(newest_first({id \in Ids : since < pubdate[id] /\ pubdate[id] <= t}), MaxFetch)

FetchResults(t) ==
    IF feed.fixed
    THEN {r \in {feed.answer} : set_of(r) \subseteq Published(t) \cup {NullId}}
    ELSE IF feed.faithful
    THEN {get_posts_since(state.last_check_timestamp, t)}
    ELSE SeqsUpTo(Published(t) \cup {NullId}, MaxFetch)

\* save_state's outcomes while the fault budget lasts
SaveOutcomesNow == IF faults < MaxFaults THEN SaveOutcomes ELSE {"ok"}

Faulted(outcome) == IF outcome = "ok" THEN faults ELSE faults + 1

\* -------------------------------------------------------------- EOMScraper

should_process_article(cfg, id) ==
    \/ classify_post_access(id) = "open" /\ cfg.process_open_content
    \/ classify_post_access(id) = "premium" /\ cfg.process_premium_content

\* the loop of _get_new_articles over raw_posts
RECURSIVE filter_posts(_, _, _)
filter_posts(s, cfg, raw_posts) ==
    IF raw_posts = <<>> THEN <<>>
    ELSE LET post_id == Head(raw_posts)
             rest == filter_posts(s, cfg, Tail(raw_posts))
         IN IF post_id = NullId THEN rest
            ELSE IF is_post_processed(s, post_id) THEN rest
            ELSE IF ~should_process_article(cfg, post_id) THEN rest
            ELSE <<post_id>> \o rest

NoRun ==
    [start |-> NoneState, fetch_time |-> 0, fetch |-> "none",
     failed |-> {}, committed |-> {}, saves |-> 0, result |-> "none"]

\* what the previous pass left for comparison: nothing
NoPrev == [fetched |-> FALSE, start_last_check |-> 0, end_last_check |-> 0,
           persisted_last_check |-> 0, persisted_total |-> 0,
           interrupted |-> FALSE, candidates |-> <<>>]

InitialConfig ==
    [dry_run |-> FALSE, process_open_content |-> TRUE,
     process_premium_content |-> FALSE]

\* the site's publication schedule: the premium post is out at time 1
Schedules == {f \in [Ids -> 1..MaxTime] : f[MaxId] = 1}

InitProgram ==
    /\ now = 0
    /\ pubdate \in Schedules
    /\ file = AbsentFile
    /\ state = NoneState
    /\ app_config = InitialConfig
    /\ pc = "idle"
    /\ new_articles = <<>>
    /\ i = 0
    /\ processed_count = 0
    /\ smtp_sent = [id \in Ids |-> 0]
    /\ passes = 0
    /\ faults = 0
    /\ run = NoRun
    /\ prev = NoPrev

\* the site may answer a fetch with any list of published posts
Init == InitProgram /\ feed = [fixed |-> FALSE, faithful |-> FALSE, answer |-> <<>>]

\* the site answers every fetch with the same list
InitReplay ==
    /\ InitProgram
    /\ feed \in {[fixed |-> TRUE, faithful |-> FALSE, answer |-> r] : r \in SeqsUpTo(Ids \cup {NullId}, MaxFetch)}

\* main() starts a process at some time t >= now: EOMScraper.__init__ loads the
\* configuration (DRY_RUN, EOM_ENABLE_PREMIUM) and the state
Start ==
    /\ pc = "idle"
    /\ passes < MaxPasses
    /\ ~load_state_raises(file)
    /\ \E t \in now..MaxTime :
          /\ now' = t
          /\ state' = load_state(file, t)
    /\ \E dry \in BOOLEAN, premium \in BOOLEAN :
          app_config' = [dry_run |-> dry, process_open_content |-> TRUE,
                         process_premium_content |-> premium]
    /\ pc' = "test_connection"
    /\ new_articles' = <<>>
    /\ i' = 0
    /\ processed_count' = 0
    /\ passes' = passes + 1
    /\ run' = [NoRun EXCEPT !.start = state']
    /\ UNCHANGED <<pubdate, file, smtp_sent, feed, faults, prev>>

\* main() starts a process and load_state raises inside EOMScraper.__init__:
\* main()'s "except Exception" logs it and calls sys.exit(1); run() is never
\* called and the file stays as it is
StartRaises ==
    /\ pc = "idle"
    /\ passes < MaxPasses
    /\ load_state_raises(file)
    /\ \E t \in now..MaxTime : now' = t
    /\ passes' = passes + 1
    /\ run' = [NoRun EXCEPT !.result = "load_raised"]
    /\ UNCHANGED <<pubdate, file, state, app_config, pc, new_articles, i,
                   processed_count, smtp_sent, feed, faults, prev>>

\* a failed connection test handled as a run-level error
TestConnection_counts ==
    /\ pc = "test_connection"
    /\ \E ok \in (IF app_config.dry_run THEN {TRUE} ELSE BOOLEAN) :
          IF ok
          THEN /\ pc' = "authenticate" /\ run' = run
               /\ UNCHANGED <<state, file>>
          ELSE /\ pc' = "returned"
               /\ state' = increment_error_count(state)
               /\ file' = save_state(file, state', "ok")
               /\ run' = [run EXCEPT !.saves = @ + 1, !.result = "false"]
    /\ UNCHANGED <<now, pubdate, app_config, new_articles, i,
                   processed_count, smtp_sent, passes, feed, faults, prev>>

\* run(): the SMTP connection test; on failure run() returns False at once
TestConnection ==
    /\ pc = "test_connection"
    /\ \E ok \in (IF app_config.dry_run THEN {TRUE} ELSE BOOLEAN) :
          IF ok
          THEN pc' = "authenticate" /\ run' = run
          ELSE pc' = "returned" /\ run' = [run EXCEPT !.result = "false"]
    /\ UNCHANGED <<now, pubdate, file, state, app_config, new_articles, i,
                   processed_count, smtp_sent, passes, feed, faults, prev>>

\* EOMAPIClient.authenticate: not implemented, returns False whatever the credentials
authenticate == FALSE

\* run(): authentication when premium content is enabled
Authenticate ==
    /\ pc = "authenticate"
    /\ app_config' =
          IF app_config.process_premium_content /\ ~authenticate
          THEN [app_config EXCEPT !.process_premium_content = FALSE]
          ELSE app_config
    /\ pc' = "get_new_articles"
    /\ UNCHANGED <<now, pubdate, file, state, new_articles, i, processed_count,
                   smtp_sent, passes, feed, faults, run, prev>>

\* what the pass observed of its fetch, issued at time t
Fetched(t, fetch) == [run EXCEPT !.fetch_time = t, !.fetch = fetch]

\* run(): new_articles = self._get_new_articles(), issued at some time t >= now;
\* the feed answers with a list (possibly empty) or fails at transport level
\* (get_posts_since returns []); no article left: mark_successful_run,
\* save_state, return True
GetNewArticles ==
    /\ pc = "get_new_articles"
    /\ \E t \in now..MaxTime, fetch \in {"ok", "transport_error"},
          outcome \in SaveOutcomesNow :
          \E raw \in (IF fetch = "ok" THEN FetchResults(t) ELSE {<<>>}) :
             /\ now' = t
             /\ LET found == filter_posts(state, app_config, raw)
                IN IF found = <<>>
                   THEN /\ state' = mark_successful_run(state, t)
                        /\ file' = save_state(file, state', outcome)
                        /\ run' = [Fetched(t, fetch) EXCEPT
                                      !.saves = @ + 1, !.result = "true"]
                        /\ faults' = Faulted(outcome)
                        /\ pc' = "returned"
                        /\ UNCHANGED <<new_articles, i>>
                   ELSE /\ outcome = "ok"
                        /\ faults' = faults
                        /\ new_articles' = found
                        /\ i' = 1
                        /\ run' = Fetched(t, fetch)
                        /\ pc' = "process_articles"
                        /\ UNCHANGED <<state, file>>
    /\ UNCHANGED <<pubdate, app_config, processed_count, smtp_sent, passes, feed, prev>>

\* run(): _get_new_articles raises (the payload is no list of post objects, so
\* post.get fails): except Exception: increment_error_count, save_state, return False
GetNewArticlesRaises ==
    /\ pc = "get_new_articles"
    /\ faults < MaxFaults
    /\ \E t \in now..MaxTime :
          /\ now' = t
          /\ state' = increment_error_count(state)
          /\ file' = save_state(file, state', "ok")
          /\ faults' = faults + 1
          /\ run' = [Fetched(t, "malformed") EXCEPT
                        !.saves = @ + 1, !.result = "false"]
    /\ pc' = "returned"
    /\ UNCHANGED <<pubdate, app_config, new_articles, i, processed_count,
                   smtp_sent, passes, feed, prev>>

\* EmailSender.send_article_email: dry-run returns True without sending ("dry");
\* otherwise the SMTP outcome decides: True ("sent") or False ("refused")
SendOutcomes(cfg) == IF cfg.dry_run THEN {"dry"} ELSE {"sent", "refused"}

\* a loop that an exception in one article ends
ProcessArticle_abort ==
    /\ pc = "process_articles"
    /\ i <= Len(new_articles)
    /\ LET post_id == new_articles[i]
       IN \E outcome \in SendOutcomes(app_config) \cup {"raised"} :
             /\ smtp_sent' =
                   IF outcome = "sent"
                   THEN [smtp_sent EXCEPT ![post_id] = IF @ < 2 THEN @ + 1 ELSE @]
                   ELSE smtp_sent
             /\ IF outcome \in {"sent", "dry"}
                THEN /\ state' = mark_post_processed(state, post_id)
                     /\ processed_count' = processed_count + 1
                     /\ run' = [run EXCEPT !.committed = @ \cup {post_id}]
                ELSE /\ run' = [run EXCEPT !.failed = @ \cup {post_id}]
                     /\ UNCHANGED <<state, processed_count>>
             /\ pc' = IF i = Len(new_articles) \/ outcome = "raised"
                      THEN "update_state" ELSE "process_articles"
    /\ i' = i + 1
    /\ UNCHANGED <<now, pubdate, file, app_config, new_articles, passes, feed, faults,
                   prev>>

\* _process_articles: one iteration of the loop over articles. The article's
\* processing raises before the send ("raised"), or send_article_email returns.
ProcessArticle ==
    /\ pc = "process_articles"
    /\ i <= Len(new_articles)
    /\ LET post_id == new_articles[i]
       IN \E outcome \in SendOutcomes(app_config) \cup {"raised"} :
             /\ smtp_sent' =
                   IF outcome = "sent"
                   THEN [smtp_sent EXCEPT ![post_id] = IF @ < 2 THEN @ + 1 ELSE @]
                   ELSE smtp_sent
             /\ IF outcome \in {"sent", "dry"}
                THEN /\ state' = mark_post_processed(state, post_id)
                     /\ processed_count' = processed_count + 1
                     /\ run' = [run EXCEPT !.committed = @ \cup {post_id}]
                ELSE /\ run' = [run EXCEPT !.failed = @ \cup {post_id}]
                     /\ UNCHANGED <<state, processed_count>>
    /\ i' = i + 1
    /\ pc' = IF i = Len(new_articles) THEN "update_state" ELSE "process_articles"
    /\ UNCHANGED <<now, pubdate, file, app_config, new_articles, passes, feed, faults,
                   prev>>

\* an update that does not look at processed_count
update_state_always(s, count, t) ==
    cleanup_old_processed_ids(
        mark_successful_run(update_last_check(s, t), t), KeepRecent)

\* run(): "if processed_count > 0:" update_last_check, mark_successful_run,
\* cleanup_old_processed_ids, the clock reading t
update_state(s, count, t) ==
    IF count > 0
    THEN cleanup_old_processed_ids(
             mark_successful_run(update_last_check(s, t), t), KeepRecent)
    ELSE s

\* run(): "Actualizar estado" after _process_articles, at some time t >= now;
\* then save_state, return True
UpdateState ==
    /\ pc = "update_state"
    /\ \E t \in now..MaxTime, outcome \in SaveOutcomesNow :
          /\ now' = t
          /\ faults' = Faulted(outcome)
          /\ state' = update_state(state, processed_count, t)
          /\ file' = save_state(file, state', outcome)
    /\ run' = [run EXCEPT !.saves = @ + 1, !.result = "true"]
    /\ pc' = "returned"
    /\ UNCHANGED <<pubdate, app_config, new_articles, i, processed_count,
                   smtp_sent, passes, feed, prev>>

\* sys.exit: the process ends and its memory is gone; the file, the site and
\* the mail already sent remain
Exit ==
    /\ pc = "returned"
    /\ pc' = "idle"
    /\ prev' = [fetched |-> run.fetch = "ok",
                start_last_check |-> run.start.last_check_timestamp,
                end_last_check |-> state.last_check_timestamp,
                persisted_last_check |->
                    IF file.exists /\ file.json THEN file.data.last_check_timestamp
                    ELSE prev.persisted_last_check,
                persisted_total |->
                    IF file.exists /\ file.json THEN file.data.total_posts_processed
                    ELSE prev.persisted_total,
                interrupted |-> FALSE,
                candidates |-> <<>>]
    /\ state' = NoneState
    /\ app_config' = InitialConfig
    /\ new_articles' = <<>>
    /\ i' = 0
    /\ processed_count' = 0
    /\ run' = NoRun
    /\ UNCHANGED <<now, pubdate, file, smtp_sent, passes, feed, faults>>

Next ==
    \/ Start
    \/ TestConnection
    \/ Authenticate
    \/ GetNewArticles
    \/ GetNewArticlesRaises
    \/ ProcessArticle
    \/ UpdateState
    \/ Exit

Spec == Init /\ [][Next]_vars

SpecReplay == InitReplay /\ [][Next]_vars

\* A StateManager on a freshly initialized state, its mutators called in any
\* order by a caller; run.committed collects the ids ever passed to
\* mark_post_processed.
InitStore ==
    /\ now = 0
    /\ pubdate = [id \in Ids |-> 1]
    /\ file = AbsentFile
    /\ state = create_initial_state(0)
    /\ app_config = InitialConfig
    /\ pc = "store"
    /\ new_articles = <<>>
    /\ i = 0
    /\ processed_count = 0
    /\ smtp_sent = [id \in Ids |-> 0]
    /\ passes = 1
    /\ faults = 0
    /\ run = [NoRun EXCEPT !.start = create_initial_state(0)]
    /\ prev = NoPrev
    /\ feed = [fixed |-> FALSE, faithful |-> FALSE, answer |-> <<>>]

StoreMarkPostProcessed ==
    /\ pc = "store"
    /\ state.total_posts_processed < MaxTotal
    /\ \E post_id \in Ids :
          /\ state' = mark_post_processed(state, post_id)
          /\ run' = [run EXCEPT !.committed = @ \cup {post_id}]
    /\ UNCHANGED <<now, pubdate, file, app_config, pc, new_articles, i,
                   processed_count, smtp_sent, passes, feed, faults, prev>>

StoreCleanup ==
    /\ pc = "store"
    /\ state' = cleanup_old_processed_ids(state, KeepRecent)
    /\ UNCHANGED <<now, pubdate, file, app_config, pc, new_articles, i,
                   processed_count, smtp_sent, passes, feed, faults, run, prev>>

StoreUpdateLastCheck ==
    /\ pc = "store"
    /\ \E t \in now..MaxTime :
          /\ now' = t
          /\ state' = update_last_check(state, t)
    /\ UNCHANGED <<pubdate, file, app_config, pc, new_articles, i,
                   processed_count, smtp_sent, passes, feed, faults, run, prev>>

StoreMarkSuccessfulRun ==
    /\ pc = "store"
    /\ \E t \in now..MaxTime :
          /\ now' = t
          /\ state' = mark_successful_run(state, t)
    /\ UNCHANGED <<pubdate, file, app_config, pc, new_articles, i,
                   processed_count, smtp_sent, passes, feed, faults, run, prev>>

StoreIncrementErrorCount ==
    /\ pc = "store"
    /\ state.errors_count < MaxFaults
    /\ state' = increment_error_count(state)
    /\ UNCHANGED <<now, pubdate, file, app_config, pc, new_articles, i,
                   processed_count, smtp_sent, passes, feed, faults, run, prev>>

NextStore ==
    \/ StoreMarkPostProcessed
    \/ StoreCleanup
    \/ StoreUpdateLastCheck
    \/ StoreMarkSuccessfulRun
    \/ StoreIncrementErrorCount

SpecStore == InitStore /\ [][NextStore]_vars

\* the site answers as WordPress does: the posts after last_check, newest
\* first, one page
InitFeed == InitProgram /\ feed = [fixed |-> FALSE, faithful |-> TRUE, answer |-> <<>>]

SpecFeed == InitFeed /\ [][Next]_vars

\* The state file as the program finds it when an earlier history, or another
\* writer, left it: absent, unreadable, valid JSON of the wrong shape, or the
\* record an earlier pass saved at time 0.
LeftStates ==
    {[last_check_timestamp |-> 0, processed_post_ids |-> P,
      total_posts_processed |-> Cardinality(P), last_successful_run |-> 0,
      errors_count |-> 0] : P \in {{1}, {1, 2}}}

FileConditions ==
    {AbsentFile, CorruptFile, WrongShapeFile("not_object"),
     WrongShapeFile("ids_not_iterable")} \cup {JsonFile(s) : s \in LeftStates}

InitResume ==
    /\ now = 0
    /\ pubdate = [id \in Ids |-> 1]
    /\ file \in FileConditions
    /\ state = NoneState
    /\ app_config = InitialConfig
    /\ pc = "idle"
    /\ new_articles = <<>>
    /\ i = 0
    /\ processed_count = 0
    /\ smtp_sent = [id \in Ids |-> IF file.json /\ id \in set_of(file.data.processed_post_ids)
                                    THEN 1 ELSE 0]
    /\ passes = 0
    /\ faults = 0
    /\ run = NoRun
    /\ prev = [NoPrev EXCEPT !.persisted_total =
                   IF file.json THEN file.data.total_posts_processed ELSE 0]
    /\ feed = [fixed |-> FALSE, faithful |-> FALSE, answer |-> <<>>]

NextResume == Next \/ StartRaises

\* where a pass is before its end-of-pass save begins
MidPass ==
    {"test_connection", "authenticate", "get_new_articles", "process_articles",
     "update_state"}

\* an interrupt that writes the state on its way out
Interrupt_flush ==
    /\ pc \in MidPass
    /\ pc' = "idle"
    /\ file' = JsonFile(state)
    /\ prev' = [prev EXCEPT !.fetched = FALSE, !.interrupted = TRUE,
                            !.candidates = new_articles]
    /\ state' = NoneState
    /\ app_config' = InitialConfig
    /\ new_articles' = <<>>
    /\ i' = 0
    /\ processed_count' = 0
    /\ run' = NoRun
    /\ UNCHANGED <<now, pubdate, smtp_sent, passes, feed, faults>>

\* the process is interrupted (KeyboardInterrupt reaching main(), or a kill)
\* before run() reaches its save_state: nothing has written the file, and the
\* process's memory is gone; the mail already sent remains
Interrupt ==
    /\ pc \in MidPass
    /\ pc' = "idle"
    /\ prev' = [prev EXCEPT !.fetched = FALSE, !.interrupted = TRUE,
                            !.candidates = new_articles]
    /\ state' = NoneState
    /\ app_config' = InitialConfig
    /\ new_articles' = <<>>
    /\ i' = 0
    /\ processed_count' = 0
    /\ run' = NoRun
    /\ UNCHANGED <<now, pubdate, file, smtp_sent, passes, feed, faults>>

\* passes over a state file in any condition, the site answering every fetch
\* with the same list, and a pass may be interrupted
InitInterrupt ==
    /\ now = 0
    /\ pubdate = [id \in Ids |-> 1]
    /\ file \in FileConditions
    /\ state = NoneState
    /\ app_config = InitialConfig
    /\ pc = "idle"
    /\ new_articles = <<>>
    /\ i = 0
    /\ processed_count = 0
    /\ smtp_sent = [id \in Ids |-> IF file.json /\ id \in set_of(file.data.processed_post_ids)
                                    THEN 1 ELSE 0]
    /\ passes = 0
    /\ faults = 0
    /\ run = NoRun
    /\ prev = [NoPrev EXCEPT !.persisted_total =
                   IF file.json THEN file.data.total_posts_processed ELSE 0]
    /\ feed \in {[fixed |-> TRUE, faithful |-> FALSE, answer |-> r] : r \in SeqsUpTo(Ids \cup {NullId}, MaxFetch)}

NextInterrupt == NextResume \/ Interrupt

SpecInterrupt == InitInterrupt /\ [][NextInterrupt]_vars

SpecResume == InitResume /\ [][NextResume]_vars

\* ------------------------------------------------------------------ claims

Returned == pc = "returned"

\* the ids of a feed answer that survive the null-id test and the content policy
AcceptedIds(raw) ==
    {id \in set_of(raw) : id # NullId /\ should_process_article(app_config, id)}

\* C1: at-least-once for failed items. After a pass, every item whose delivery
\* failed in it (and was not delivered by another attempt of the same pass) is
\* not in processed_ids, and last_check has not advanced past its publication time.
C1_FailedItemStaysCandidate ==
    Returned =>
        \A x \in run.failed \ run.committed :
            /\ x \notin state.processed_post_ids
            /\ \/ state.last_check_timestamp = run.start.last_check_timestamp
               \/ state.last_check_timestamp <= pubdate[x]

\* C2: no duplicate delivery. Whatever the feed returns, no item id is handed to
\* SMTP with success more than once.
C2_NoDuplicateDelivery == \A id \in Ids : smtp_sent[id] <= 1

\* C3: monotonic watermark. The last_check a pass leaves in the state file is
\* never below the last_check an earlier pass left there.
C3_WatermarkMonotonic ==
    (Returned /\ file.exists /\ file.json) =>
        file.data.last_check_timestamp >= prev.persisted_last_check

\* the second pass persisted a watermark above the one the first pass persisted
C3_Witness ==
    /\ Returned /\ passes = 2 /\ file.exists /\ file.json
    /\ run.committed # {}
    /\ prev.persisted_last_check = prev.end_last_check
    /\ run.start.last_check_timestamp = prev.persisted_last_check
    /\ file.data.last_check_timestamp > prev.persisted_last_check

\* C4: a pass in which no send returned success (empty or failed fetch, every
\* candidate filtered out, or every delivery refused or raising) leaves
\* last_check, processed_ids, total_posts_processed and errors_count as loaded,
\* calls save_state once and returns True.
C4_NoDeliveryLeavesState ==
    (Returned /\ run.fetch \in {"ok", "transport_error"} /\ run.committed = {}) =>
        /\ state.last_check_timestamp = run.start.last_check_timestamp
        /\ state.processed_post_ids = run.start.processed_post_ids
        /\ state.total_posts_processed = run.start.total_posts_processed
        /\ state.errors_count = run.start.errors_count
        /\ run.saves = 1
        /\ run.result = "true"

\* every delivery of the pass failed, some time after the state was loaded
C4_Witness ==
    /\ Returned /\ run.failed # {} /\ run.committed = {}
    /\ now > run.start.last_check_timestamp
    /\ run.result = "true"

\* C5: a pass that commits an item sets last_check to the time its fetch was
\* issued, so no post published after the fetch lies at or below the watermark.
C5_WatermarkIsFetchTime ==
    (Returned /\ run.committed # {}) =>
        /\ state.last_check_timestamp = run.fetch_time
        /\ \A id \in Ids :
              pubdate[id] > run.fetch_time => pubdate[id] > state.last_check_timestamp

\* C6: every id in processed_ids, in memory or in the file, is the id of an
\* item that SMTP accepted, dry-run included.
C6_ProcessedWereDelivered ==
    /\ \A id \in state.processed_post_ids : smtp_sent[id] >= 1
    /\ (file.exists /\ file.json) =>
          \A id \in set_of(file.data.processed_post_ids) : smtp_sent[id] >= 1

\* the end-of-pass update ran: cleanup_old_processed_ids(KeepRecent) was called
CleanupCalled == Returned /\ run.result = "true" /\ run.committed # {}

\* C7 as stated: right after cleanup_old_processed_ids with ceiling C there are
\* at most C ids.
C7_AtMostCeiling ==
    CleanupCalled => Cardinality(state.processed_post_ids) <= KeepRecent

\* C7, amended: right after cleanup_old_processed_ids with ceiling C there are
\* at most 1.5 * C ids.
C7_AtMostCeilingAndHalf ==
    CleanupCalled => 2 * Cardinality(state.processed_post_ids) <= 3 * KeepRecent

\* cleanup was called on more than 1.5 * C ids and cut them to C
C7_Witness ==
    /\ CleanupCalled
    /\ Cardinality(run.start.processed_post_ids \cup run.committed) > KeepRecent + 1
    /\ Cardinality(state.processed_post_ids) = KeepRecent

\* C8: the end-of-pass trim removes no id committed in the same pass.
C8_TrimKeepsThisPass ==
    Returned => run.committed \subseteq state.processed_post_ids

\* the second of two passes with the same fetch result, both fetches answered
Replayed == Returned /\ feed.fixed /\ prev.fetched /\ run.fetch = "ok"

\* the second pass left processed_ids and the counter alone and sent nothing
NothingDone ==
    /\ run.committed = {}
    /\ state.processed_post_ids = run.start.processed_post_ids
    /\ state.total_posts_processed = run.start.total_posts_processed

\* C9 as stated: the same fetch result twice with the watermark unchanged (the
\* second pass loads the watermark the first pass loaded and left): the second
\* pass delivers nothing and commits nothing.
C9_ReplayDoesNothing ==
    (/\ Replayed
     /\ run.start.last_check_timestamp = prev.end_last_check
     /\ run.start.last_check_timestamp = prev.start_last_check) => NothingDone

\* C9, amended: the same fetch result twice, the second pass loading the
\* watermark the first left, and every id of the result that the policy accepts
\* already in processed_ids when the second pass starts: the second pass attempts
\* no delivery and commits nothing.
C9_ReplayOfProcessedDoesNothing ==
    (/\ Replayed
     /\ run.start.last_check_timestamp = prev.end_last_check
     /\ AcceptedIds(feed.answer) \subseteq run.start.processed_post_ids)
        => NothingDone /\ run.failed = {}

\* the first pass delivered the posts of the answer, the second met them again
C9_Witness ==
    /\ Replayed
    /\ run.start.last_check_timestamp = prev.end_last_check
    /\ AcceptedIds(feed.answer) # {}
    /\ AcceptedIds(feed.answer) \subseteq run.start.processed_post_ids
    /\ \A id \in AcceptedIds(feed.answer) : smtp_sent[id] = 1

\* C10: when run() returns, on any exit path, save_state has been called
\* exactly once.
C10_SavedExactlyOnce == Returned => run.saves = 1

\* C11: a feed request that fails at transport level (HTTP error status or
\* request exception) ends the pass as Failed: errors_count is one more than
\* loaded, last_successful_run is as loaded, save_state was called and run()
\* returns False.
C11_TransportFailureFails ==
    (Returned /\ run.fetch = "transport_error") =>
        /\ state.errors_count = run.start.errors_count + 1
        /\ state.last_successful_run = run.start.last_successful_run
        /\ run.saves = 1
        /\ run.result = "false"

\* C12: load_state never raises: whatever the state file holds, the process
\* gets a state, and for an absent file, invalid JSON or JSON of the wrong
\* shape that state is fresh (no ids, counters 0, last_check = the clock).
C12_LoadStateNeverRaises ==
    /\ run.result # "load_raised"
    /\ (pc = "test_connection"
           /\ ~(file.exists /\ file.json /\ file.shape = "object")) =>
          state = create_initial_state(now)

\* C13: save_state is atomic: the state file, once it exists, always holds a
\* complete record, the previous one or the new one.
C13_SaveIsAtomic == file.exists => file.json

\* the loop of _process_articles is over
LoopDone == pc = "update_state" \/ (Returned /\ new_articles # <<>>)

\* one iteration of the loop handles new_articles[i] and nothing else, and goes on
OneAttemptInOrder ==
    pc = "process_articles" =>
        LET post_id == new_articles[i]
        IN /\ i' = i + 1
           /\ new_articles' = new_articles
           /\ pc' = IF i = Len(new_articles) THEN "update_state" ELSE "process_articles"
           /\ run'.failed \cup run'.committed = run.failed \cup run.committed \cup {post_id}
           /\ run'.committed \subseteq run.committed \cup {post_id}
           /\ run'.committed = run.committed => state' = state

\* C14: item failures are isolated. Each iteration of the loop attempts exactly
\* the next surviving item; an attempt that fails or raises changes no state;
\* when the loop is over every surviving item has been attempted once, no id
\* whose every attempt failed is in processed_ids, errors_count is as loaded,
\* and run() returns True.
C14_ItemFailuresIsolated ==
    /\ [](LoopDone =>
            /\ i = Len(new_articles) + 1
            /\ run.failed \cup run.committed = set_of(new_articles)
            /\ (run.failed \ run.committed) \cap state.processed_post_ids = {}
            /\ state.errors_count = run.start.errors_count
            /\ Returned => run.result = "true")
    /\ [][OneAttemptInOrder]_vars

\* the first item's processing failed, the second was attempted and committed
C14_Witness ==
    /\ Returned /\ Len(new_articles) = 2
    /\ new_articles[1] \in run.failed \ run.committed
    /\ new_articles[2] \in run.committed
    /\ new_articles[2] \in state.processed_post_ids
    /\ run.result = "true"

\* a pass whose fetch returned the fixed answer F and in which no attempt failed
AllDelivered == Returned /\ feed.fixed /\ run.fetch = "ok" /\ run.failed = {}

\* the ids of F that the policy accepts and that were not in P at the start
NewIds == AcceptedIds(feed.answer) \ run.start.processed_post_ids

\* P together with the accepted ids of F stays within the trim threshold
NoTrim ==
    2 * Cardinality(run.start.processed_post_ids \cup AcceptedIds(feed.answer))
        <= 3 * KeepRecent

\* C15: a pass that starts with processed set P, fetches F and delivers every
\* accepted item of F, with at least one new id and no trim, ends with
\* processed_ids = P + accepted ids of F, total_posts_processed increased by the
\* number of new ids, last_check set to the clock (not before the loaded
\* value) and last_successful_run set to the clock.
C15_AllDeliveredEndState ==
    (AllDelivered /\ NewIds # {} /\ NoTrim) =>
        /\ state.processed_post_ids =
              run.start.processed_post_ids \cup AcceptedIds(feed.answer)
        /\ state.total_posts_processed =
              run.start.total_posts_processed + Cardinality(NewIds)
        /\ state.last_check_timestamp = now
        /\ state.last_check_timestamp >= run.start.last_check_timestamp
        /\ state.last_successful_run = now

\* the second pass meets an id it had processed and a new one, delivers the
\* new one, and the watermark moves
C15_Witness ==
    /\ AllDelivered /\ NoTrim /\ passes = 2
    /\ AcceptedIds(feed.answer) \cap run.start.processed_post_ids # {}
    /\ NewIds # {}
    /\ run.committed = NewIds
    /\ state.last_check_timestamp > run.start.last_check_timestamp

\* mark_post_processed(id) called once and called twice on state s
MarkedOnce(s, id) == mark_post_processed(s, id)
MarkedTwice(s, id) == mark_post_processed(mark_post_processed(s, id), id)

\* C16: mark_post_processed is idempotent. On every state the program reaches
\* and for every id, two calls leave the processed_ids and the
\* total_posts_processed of one call, and a call changes no other field; and
\* when a pass has marked the same id in two iterations of its loop, the id
\* was counted once.
C16_MarkIdempotent ==
    /\ \A id \in Ids :
          /\ MarkedTwice(state, id).processed_post_ids =
                MarkedOnce(state, id).processed_post_ids
          /\ MarkedTwice(state, id).total_posts_processed =
                MarkedOnce(state, id).total_posts_processed
          /\ MarkedOnce(state, id).last_check_timestamp = state.last_check_timestamp
          /\ MarkedOnce(state, id).last_successful_run = state.last_successful_run
          /\ MarkedOnce(state, id).errors_count = state.errors_count
    /\ (pc = "update_state" /\ processed_count = 2 /\ Cardinality(run.committed) = 1) =>
          /\ state.total_posts_processed = run.start.total_posts_processed + 1
          /\ state.processed_post_ids = run.start.processed_post_ids \cup run.committed

\* the loop marked the same id twice, on a state that held other ids already
C16_Witness ==
    /\ pc = "update_state" /\ processed_count = 2 /\ Cardinality(run.committed) = 1
    /\ run.start.processed_post_ids # {}
    /\ run.committed \subseteq state.processed_post_ids

\* C17: total_posts_processed never decreases: the value a pass leaves in the
\* state file is never below the value an earlier pass left there, loads that
\* fall back to a fresh state included.
C17_TotalNeverDecreases ==
    (Returned /\ file.exists /\ file.json) =>
        file.data.total_posts_processed >= prev.persisted_total

C19_SuccessOnlyWhenNoFailure ==
    (Returned /\ run.failed # {}) =>
        state.last_successful_run = run.start.last_successful_run

\* a remote item the claim calls malformed: its date does not parse
Malformed(id) == format_date(post_date(id)) # "formatted"

\* C20: a malformed remote item is skipped: it is never handed to SMTP and never
\* committed, and it is not counted as a failure.
C20_MalformedItemSkipped ==
    \A id \in Ids :
        Malformed(id) =>
            /\ smtp_sent[id] = 0
            /\ id \notin state.processed_post_ids
            /\ id \notin run.failed

\* the access classes the configured policy enables are the ones run() applies
PolicyKept ==
    pc = "authenticate" =>
        /\ app_config'.process_open_content = app_config.process_open_content
        /\ app_config'.process_premium_content = app_config.process_premium_content

\* the candidates of the fixed answer F under the policy in force: not null,
\* not in processed_ids, access class enabled
Candidates == {id \in AcceptedIds(feed.answer) : ~is_post_processed(state, id)}

\* the fetch returned F: what survives filtering is exactly Candidates, and
\* each survivor goes to the delivery loop
FilterByPolicy ==
    (pc = "get_new_articles" /\ pc' # "get_new_articles" /\ run'.fetch = "ok") =>
        /\ (pc' = "process_articles") = (Candidates # {})
        /\ pc' = "process_articles" => set_of(new_articles') = Candidates

\* C21: the content policy is applied per item: under each configured policy
\* (open only, both) a candidate whose id is not in processed_ids survives
\* filtering and is attempted if and only if its access class is enabled by
\* the configured policy.
C21_PolicyPerItem == [][PolicyKept /\ FilterByPolicy]_vars

\* a step of a pass that stays before the end-of-pass save, the interrupt included
BeforeSave == pc \in MidPass /\ pc' \in MidPass \cup {"idle"}

\* the pass after an interrupted one got the feed's answer and filtered it
AfterInterrupt ==
    /\ prev.interrupted /\ run.fetch = "ok"
    /\ pc \in {"process_articles", "update_state", "returned"}

\* C22: a pass interrupted before its end-of-pass save leaves the state file as
\* it was when the pass started (no step before the save writes it), and when
\* the feed returns the same items to the next pass, every candidate of the
\* interrupted pass is a candidate of the next pass.
C22_InterruptDiscardsPass ==
    /\ [](AfterInterrupt => set_of(prev.candidates) \subseteq set_of(new_articles))
    /\ [][BeforeSave => file' = file]_vars

\* the interrupted pass had delivered a candidate; the next pass has it as a
\* candidate again
C22_Witness ==
    /\ AfterInterrupt /\ pc = "process_articles"
    /\ prev.candidates # <<>>
    /\ new_articles = prev.candidates
    /\ smtp_sent[new_articles[1]] = 1
    /\ file.exists /\ file.json

\* the ceilings cleanup_old_processed_ids is tried with
Ceilings == 1..MaxId

\* cleanup_old_processed_ids(C) applied to the state s has the result the
\* claim gives
CleanupExact(s, C) ==
    LET r == cleanup_old_processed_ids(s, C)
        old == s.processed_post_ids
        new == r.processed_post_ids
    IN /\ IF 2 * Cardinality(old) > 3 * C
          THEN /\ new \subseteq old
               /\ Cardinality(new) = C
               /\ \A x \in new, y \in old \ new : x > y
          ELSE new = old
       /\ r.total_posts_processed = s.total_posts_processed
       /\ r.last_check_timestamp = s.last_check_timestamp
       /\ r.last_successful_run = s.last_successful_run
       /\ r.errors_count = s.errors_count

\* what run() passes to cleanup_old_processed_ids at the end of a pass that
\* delivered something: the loaded ids and the ids committed in the pass
BeforeCleanup ==
    [state EXCEPT !.processed_post_ids = run.start.processed_post_ids \cup run.committed]

\* C23: cleanup_old_processed_ids(C): a set of more than 1.5 * C ids becomes
\* exactly its C numerically largest ids, a smaller set is left as it is, and
\* total_posts_processed, last_check, last_successful_run and errors_count are
\* unchanged; for every state the program reaches and every ceiling, and for
\* the call run() makes at the end of a pass.
C23_CleanupExact ==
    /\ \A C \in Ceilings : CleanupExact(state, C)
    /\ CleanupCalled =>
          state.processed_post_ids =
              cleanup_old_processed_ids(BeforeCleanup, KeepRecent).processed_post_ids

\* the end-of-pass call met more than 1.5 * C ids and kept the C largest
C23_Witness ==
    /\ CleanupCalled
    /\ 2 * Cardinality(run.start.processed_post_ids \cup run.committed) > 3 * KeepRecent
    /\ Cardinality(state.processed_post_ids) = KeepRecent
    /\ \E y \in run.committed : y \notin state.processed_post_ids

\* the posts the policy accepts that were published after the watermark the
\* pass loaded and by the time of its fetch
InWindow ==
    {id \in Ids : /\ should_process_article(app_config, id)
                  /\ run.start.last_check_timestamp < pubdate[id]
                  /\ pubdate[id] <= run.fetch_time}

\* C24: no item is lost to the fetch limit. After a pass whose fetch was
\* answered and in which no delivery failed, every accepted post of the fetch
\* window that lies at or below the new watermark has been delivered (handed to
\* SMTP, or committed by a dry run).
C24_NoItemLostToFetchLimit ==
    (Returned /\ run.fetch = "ok" /\ run.failed = {}) =>
        \A id \in InWindow :
            pubdate[id] <= state.last_check_timestamp =>
                smtp_sent[id] >= 1 \/ id \in state.processed_post_ids

\* run() returned from its connection pre-check: nothing was fetched
PreCheckFailed == Returned /\ run.fetch = "none"

\* the step in which the pre-check fails changes nothing but run()'s position
\* and result
PreCheckStep ==
    (pc = "test_connection" /\ pc' = "returned") =>
        /\ file' = file
        /\ state' = state
        /\ smtp_sent' = smtp_sent
        /\ new_articles' = new_articles

\* C25: when the connectivity pre-check fails, the pass fetches nothing and
\* delivers nothing, leaves every field of the in-memory state as loaded
\* (errors_count included), does not call save_state or write the file, and
\* returns False.
C25_PreCheckFailureIsInert ==
    /\ [](PreCheckFailed =>
            /\ run.result = "false"
            /\ state = run.start
            /\ run.saves = 0
            /\ run.committed = {} /\ run.failed = {}
            /\ new_articles = <<>> /\ processed_count = 0)
    /\ [][PreCheckStep]_vars

\* the pre-check failed in a pass over a file that holds processed ids
C25_Witness ==
    /\ PreCheckFailed
    /\ run.start.processed_post_ids # {}
    /\ file.exists /\ file.json
    /\ from_dict(file.data) = state
    /\ run.result = "false"

\* C26: from a fresh state and under any sequence of store calls,
\* total_posts_processed is at least the number of ids in processed_ids, and it
\* equals the number of distinct ids ever inserted.
C26_TotalCountsDistinctIds ==
    pc = "store" =>
        /\ state.total_posts_processed >= Cardinality(state.processed_post_ids)
        /\ state.total_posts_processed = Cardinality(run.committed)

====
